---- MODULE Spec2Model ----
(***************************************************************************)
(* A model of src/Router.ts: Route (construction, matchPath, match) and    *)
(* Router (constructor, findMatchingRoutes, serve, createRoute, get, post, *)
(* fixPath, createUrlPattern, setBasePath).                                *)
(*                                                                         *)
(* JavaScript strings are sequences of one-character strings, so that      *)
(* startsWith, endsWith, slice, toUpperCase and the pattern match work on  *)
(* the characters as the code does.                                        *)
(***************************************************************************)
EXTENDS Integers, Sequences, FiniteSets, TLC

\* ------------------------------------------------------------------ bounds

\* The longest routes array the model follows (an array the code keeps
\* pushing to past this length is taken to exhaust the engine's memory).
MaxRoutes == 3

\* The longest routes array of the nested router in the dispatch
\* specification.
MaxNestedRoutes == 1

\* The longest path given to fixPath in the normalization specification.
MaxPathLen == 3

\* ------------------------------------------------------------- characters

LowerCase == <<"a","b","c","d","e","f","g","h","i","j","k","l","m",
               "n","o","p","q","r","s","t","u","v","w","x","y","z">>

UpperCase == <<"A","B","C","D","E","F","G","H","I","J","K","L","M",
               "N","O","P","Q","R","S","T","U","V","W","X","Y","Z">>

Digits == {"0","1","2","3","4","5","6","7","8","9"}

Letters == {LowerCase[i] : i \in DOMAIN LowerCase} \cup {UpperCase[i] : i \in DOMAIN UpperCase}

\* String.prototype.toUpperCase on one character.
ToUpperChar(c) ==
    IF \E i \in DOMAIN LowerCase : LowerCase[i] = c
    THEN UpperCase[CHOOSE i \in DOMAIN LowerCase : LowerCase[i] = c]
    ELSE c

\* String.prototype.toUpperCase.
ToUpperCase(s) == [i \in DOMAIN s |-> ToUpperChar(s[i])]

\* String.prototype.startsWith("/") and endsWith("/").
StartsWithSlash(s) == Len(s) > 0 /\ s[1] = "/"

EndsWithSlash(s) == Len(s) > 0 /\ s[Len(s)] = "/"

\* String.prototype.slice(1).
Slice1(s) == SubSeq(s, 2, Len(s))

\* The values of the type Methods.
ANY == <<"A","N","Y">>

GET == <<"G","E","T">>

POST == <<"P","O","S","T">>

PUT == <<"P","U","T">>

PATCH == <<"P","A","T","C","H">>

DELETE == <<"D","E","L","E","T","E">>

Methods == {ANY, GET, POST, PUT, PATCH, DELETE}

\* ---------------------------------------------------------------- fixPath

\* Router.fixPath, with this.basePath passed as base: the base path (or "/"
\* when it is empty) followed by the path without its first "/", and a "/"
\* appended unless the result already ends with one.
FixPath(base, path) ==
    LET prefix == IF base = <<>> THEN <<"/">> ELSE base
        joined == prefix \o (IF StartsWithSlash(path) THEN Slice1(path) ELSE path)
    IN IF EndsWithSlash(joined) THEN joined ELSE joined \o <<"/">>

\* ------------------------------------------------------------ url-pattern

\* The characters of a segment name (":name") and of a captured value, as
\* the pattern compiled by createUrlPattern takes them.
SegmentNameChars == Letters \cup Digits

SegmentValueChars == Letters \cup Digits \cup {"-", "_", "~", " ", "%"}

\* The length of the longest prefix of s made of characters of set.
RECURSIVE RunLength(_, _)
RunLength(s, set) ==
    IF s # <<>> /\ Head(s) \in set THEN 1 + RunLength(Tail(s), set) ELSE 0

\* pattern.match(path) returning null.
NoMatch == [matched |-> FALSE, params |-> <<>>]

\* pattern.match(path) for a pattern made of literal characters and named
\* segments: the whole path must match; a named segment captures one or
\* more value characters, as many as the rest of the pattern allows. The
\* captures are listed in pattern order as <<name, value>> pairs.
RECURSIVE PatternMatch(_, _)
PatternMatch(pattern, path) ==
    IF pattern = <<>>
    THEN IF path = <<>> THEN [matched |-> TRUE, params |-> <<>>] ELSE NoMatch
    ELSE IF Head(pattern) = ":"
    THEN LET n    == RunLength(Tail(pattern), SegmentNameChars)
             name == SubSeq(pattern, 2, n + 1)
             rest == SubSeq(pattern, n + 2, Len(pattern))
             ks   == {k \in 1..RunLength(path, SegmentValueChars) :
                         PatternMatch(rest, SubSeq(path, k + 1, Len(path))).matched}
         IN IF ks = {}
            THEN NoMatch
            ELSE LET k   == CHOOSE x \in ks : \A y \in ks : y <= x
                     sub == PatternMatch(rest, SubSeq(path, k + 1, Len(path)))
                 IN [matched |-> TRUE,
                     params  |-> <<<<name, SubSeq(path, 1, k)>>>> \o sub.params]
    ELSE IF path # <<>> /\ Head(path) = Head(pattern)
    THEN PatternMatch(Tail(pattern), Tail(path))
    ELSE NoMatch

\* ------------------------------------------------------------------ Route

\* The routers of a model run: a root and two routers to nest.
RouterIds == {1, 2, 3}

\* A RouteHandler: a function or a Router (handler instanceof Router).
FunctionHandler(f) == [kind |-> "function", id |-> f]

RouterHandler(r) == [kind |-> "router", id |-> r]

IsRouter(handler) == handler.kind = "router"

\* An optional property of an options object: the object is a record that
\* has the field or not, and a missing method, an empty method, a missing
\* or false isMiddleware are all falsy.
HasMethod(options) == "method" \in DOMAIN options /\ options.method # <<>>

WantsMiddleware(options) == "isMiddleware" \in DOMAIN options /\ options.isMiddleware

\* new Route(router, options) taking isMiddleware from the options whatever
\* the handler is.
NewRouteKeepsMiddleware(r, base, options) ==
    [router          |-> r,
     method          |-> IF HasMethod(options) THEN options.method ELSE GET,
     path            |-> [inputPath     |-> options.path,
                          formattedPath |-> FixPath(base, options.path),
                          pattern       |-> FixPath(base, options.path)],
     handler         |-> options.handler,
     isMiddleware    |-> WantsMiddleware(options),
     isRouterHandler |-> IsRouter(options.handler)]

\* new Route(router, options), with router.basePath passed as base.
NewRoute(r, base, options) ==
    [router          |-> r,
     method          |-> IF HasMethod(options) THEN options.method ELSE GET,
     path            |-> [inputPath     |-> options.path,
                          formattedPath |-> FixPath(base, options.path),
                          pattern       |-> FixPath(base, options.path)],
     handler         |-> options.handler,
     isMiddleware    |-> IF IsRouter(options.handler) THEN FALSE ELSE WantsMiddleware(options),
     isRouterHandler |-> IsRouter(options.handler)]

\* Route.matchPath.
MatchPath(route, request) == PatternMatch(route.path.pattern, request.path)

\* Route.match with the method comparison left case-sensitive.
RouteMatchCaseSensitive(route, request) ==
    LET pathMatches   == MatchPath(route, request)
        methodMatches == route.method = request.method
    IN [pathMatch |-> pathMatches, doesMatch |-> pathMatches.matched /\ methodMatches]

\* Route.match.
RouteMatch(route, request) ==
    LET pathMatches   == MatchPath(route, request)
        methodMatches == ToUpperCase(route.method) = ToUpperCase(request.method)
    IN [pathMatch |-> pathMatches, doesMatch |-> pathMatches.matched /\ methodMatches]

\* ----------------------------------------------------- findMatchingRoutes

\* Router.findMatchingRoutes with a nested Router's matches put after the
\* parent's own instead of at the mounting route's position.
RECURSIVE FindMatchingRoutesNestedLast(_, _, _)
FindMatchingRoutesNestedLast(rs, r, request) ==
    LET RECURSIVE Own(_)
        Own(i) ==
            IF i > Len(rs[r]) THEN <<>>
            ELSE LET route == rs[r][i]
                 IN IF IsRouter(route.handler) THEN Own(i + 1)
                    ELSE LET matchRoute == RouteMatch(route, request)
                         IN (IF matchRoute.doesMatch
                             THEN <<[match |-> matchRoute.pathMatch, route |-> route]>>
                             ELSE <<>>) \o Own(i + 1)
        RECURSIVE Nested(_)
        Nested(i) ==
            IF i > Len(rs[r]) THEN <<>>
            ELSE LET route == rs[r][i]
                 IN (IF IsRouter(route.handler)
                     THEN FindMatchingRoutesNestedLast(rs, route.handler.id, request)
                     ELSE <<>>) \o Nested(i + 1)
    IN Own(1) \o Nested(1)

\* Router.findMatchingRoutes of router r, rs being the routes of every
\* router: the for loop over this.routes, from index i on.
RECURSIVE FindMatchingRoutes(_, _, _)
FindMatchingRoutes(rs, r, request) ==
    LET RECURSIVE Loop(_)
        Loop(i) ==
            IF i > Len(rs[r]) THEN <<>>
            ELSE LET route == rs[r][i]
                 IN IF IsRouter(route.handler)
                    THEN FindMatchingRoutes(rs, route.handler.id, request) \o Loop(i + 1)
                    ELSE LET matchRoute == RouteMatch(route, request)
                         IN (IF matchRoute.doesMatch
                             THEN <<[match |-> matchRoute.pathMatch, route |-> route]>>
                             ELSE <<>>) \o Loop(i + 1)
    IN Loop(1)

\* The routes of a list of matches.
RoutesOf(matches) == [i \in DOMAIN matches |-> matches[i].route]

\* ------------------------------------------------------------------ state

VARIABLES
    basePath,        \* Router.basePath of every router
    isWaterfall,     \* Router.isWaterfall of every router
    routes,          \* Router.routes of every router
    ctorOptions,     \* the options every router was constructed with
    lastCall,        \* the last call of the Router's interface, and how it ended
    pc,              \* where the serve call in progress stands
    thisRouter,      \* the router serve was called on (0: no call)
    alreadyProcessed,\* serve's alreadyProcessed
    request,         \* the RouterRequest of the serve call
    response,        \* the RouterResponse of the serve call
    foundMatchingRoutes, \* serve's foundMatchingRoutes
    middlewares,     \* serve's middlewares
    responseHandler, \* serve's responseHandler: <<>> or <<the matching route>>
    mwStatus,        \* the state of each middleware invocation of the call
    handlerStatus,   \* the state of the terminal handler's invocation
    invoked,         \* the routes whose handler the call has invoked, in order
    outcome          \* how the serve call ended

regVars == <<basePath, isWaterfall, routes, ctorOptions, lastCall>>

serveVars == <<pc, thisRouter, alreadyProcessed, request, response,
               foundMatchingRoutes, middlewares, responseHandler, mwStatus,
               handlerStatus, invoked, outcome>>

vars == <<regVars, serveVars>>

\* ------------------------------------------------------------ constructor

\* path || "/" in setBasePath, for the options object's basePath.
BasePathArgument(options) ==
    IF "basePath" \in DOMAIN options /\ options.basePath # <<>>
    THEN options.basePath
    ELSE <<"/">>

\* Lines 334-335 of setBasePath: this.basePath = "/", then
\* this.basePath = this.fixPath(path || "/").
NewBasePath(options) == FixPath(<<"/">>, BasePathArgument(options))

\* options.waterfallMiddleware || true.
WaterfallOrTrue(options) ==
    IF "waterfallMiddleware" \in DOMAIN options /\ options.waterfallMiddleware
    THEN options.waterfallMiddleware
    ELSE TRUE

\* The options of createRoute in setBasePath's loop, from the old route.
RebuildOptions(oldRoute) ==
    [path         |-> oldRoute.path.inputPath,
     handler      |-> oldRoute.handler,
     method       |-> oldRoute.method,
     isMiddleware |-> oldRoute.isMiddleware]

\* setBasePath's loop, for (const oldRoute of this.routes), from index i on:
\* createRoute pushes the new route to this.routes, the array the loop is
\* iterating, so the loop sees it as one more old route. It ends "returned"
\* with newRoutes when the index passes the end of the array, and
\* "exhausted" with the array as grown when the array cannot grow further.
RECURSIVE RebuildLoop(_, _, _, _, _)
RebuildLoop(r, base, thisRoutes, newRoutes, i) ==
    IF i > Len(thisRoutes)
    THEN [outcome |-> "returned", routes |-> newRoutes]
    ELSE IF Len(thisRoutes) >= MaxRoutes
    THEN [outcome |-> "exhausted", routes |-> thisRoutes]
    ELSE LET newRoute == NewRoute(r, base, RebuildOptions(thisRoutes[i]))
         IN RebuildLoop(r, base, Append(thisRoutes, newRoute),
                        Append(newRoutes, newRoute), i + 1)

NoCall == [op |-> "none", outcome |-> "returned"]

\* The engine has not run out of memory: the program is still running.
Alive == lastCall.outcome # "exhausted"

\* The state after new Router(options) for every router, options[r] being
\* the options of router r.
Constructed(options) ==
    /\ ctorOptions = options
    /\ isWaterfall = [r \in RouterIds |-> WaterfallOrTrue(options[r])]
    /\ basePath = [r \in RouterIds |-> NewBasePath(options[r])]
    /\ routes = [r \in RouterIds |->
                    RebuildLoop(r, NewBasePath(options[r]), <<>>, <<>>, 1).routes]
    /\ lastCall = NoCall

\* ----------------------------------------------------------- registration

\* createRoute's test of line 268: options.method !== "ANY" (a missing
\* method is not "ANY") && options.handler instanceof Router.
RejectsHandler(options) ==
    /\ ~("method" \in DOMAIN options) \/ options.method # ANY
    /\ IsRouter(options.handler)

\* Router.createRoute pushing the route before it tests the handler.
CreateRoutePushFirst(op, r, options) ==
    /\ Alive
    /\ pc = "idle"
    /\ Len(routes[r]) < MaxRoutes
    /\ routes' = [routes EXCEPT ![r] = Append(@, NewRoute(r, basePath[r], options))]
    /\ lastCall' = [op |-> op, router |-> r, options |-> options,
                    outcome |-> IF RejectsHandler(options) THEN "thrown" ELSE "returned"]
    /\ UNCHANGED <<basePath, isWaterfall, ctorOptions, serveVars>>

\* Router.createRoute(options) on router r, called as op (createRoute
\* itself, or get or post, which call it): it throws when the handler is a
\* Router and the method is not "ANY", and otherwise pushes a new Route to
\* this.routes.
CreateRouteAs(op, r, options) ==
    /\ Alive
    /\ pc = "idle"
    /\ Len(routes[r]) < MaxRoutes
    /\ IF RejectsHandler(options)
       THEN /\ lastCall' = [op |-> op, router |-> r, options |-> options,
                            outcome |-> "thrown"]
            /\ UNCHANGED routes
       ELSE /\ routes' = [routes EXCEPT ![r] = Append(@, NewRoute(r, basePath[r], options))]
            /\ lastCall' = [op |-> op, router |-> r, options |-> options,
                            outcome |-> "returned"]
    /\ UNCHANGED <<basePath, isWaterfall, ctorOptions, serveVars>>

CreateRoute(r, options) == CreateRouteAs("createRoute", r, options)

\* Router.get and Router.post: createRoute with the method fixed and
\* isMiddleware false.
RouterGet(r, path, handler) ==
    CreateRouteAs("get", r, [path |-> path, handler |-> handler, method |-> GET,
                             isMiddleware |-> FALSE])

RouterPost(r, path, handler) ==
    CreateRouteAs("post", r, [path |-> path, handler |-> handler, method |-> POST,
                              isMiddleware |-> FALSE])

\* Router.setBasePath(path) on router r, called after construction: the
\* new base path is assigned, then the loop rebuilds the routes. When the
\* loop returns, this.routes becomes newRoutes; when it exhausts the
\* engine's memory the call never returns and this.routes is left as grown.
SetBasePath(r, path) ==
    LET base == NewBasePath([basePath |-> path])
        loop == RebuildLoop(r, base, routes[r], <<>>, 1)
    IN /\ Alive
       /\ pc = "idle"
       /\ basePath' = [basePath EXCEPT ![r] = base]
       /\ routes' = [routes EXCEPT ![r] = loop.routes]
       /\ lastCall' = [op |-> "setBasePath", router |-> r, path |-> path,
                       before |-> routes[r], outcome |-> loop.outcome]
       /\ UNCHANGED <<isWaterfall, ctorOptions, serveVars>>

\* Client code assigning the public field isWaterfall of router r.
AssignIsWaterfall(r, value) ==
    /\ Alive
    /\ pc = "idle"
    /\ isWaterfall[r] # value
    /\ isWaterfall' = [isWaterfall EXCEPT ![r] = value]
    /\ lastCall' = [op |-> "isWaterfall", router |-> r, value |-> value,
                    outcome |-> "returned"]
    /\ UNCHANGED <<basePath, routes, ctorOptions, serveVars>>

\* ---------------------------------------------------------------- lookups

\* A call of Route.match on the i-th route of router r.
RouteMatchCall(r, i, req) ==
    /\ Alive
    /\ pc = "idle"
    /\ i \in DOMAIN routes[r]
    /\ lastCall' = [op |-> "match", router |-> r, route |-> routes[r][i],
                    request |-> req, result |-> RouteMatch(routes[r][i], req),
                    outcome |-> "returned"]
    /\ UNCHANGED <<basePath, isWaterfall, routes, ctorOptions, serveVars>>

\* A call of Router.findMatchingRoutes on router r.
FindMatchingRoutesCall(r, req) ==
    /\ Alive
    /\ pc = "idle"
    /\ lastCall' = [op |-> "findMatchingRoutes", router |-> r, request |-> req,
                    result |-> FindMatchingRoutes(routes, r, req),
                    outcome |-> "returned"]
    /\ UNCHANGED <<basePath, isWaterfall, routes, ctorOptions, serveVars>>

\* A call of Router.fixPath(path) on router r. again: the path is the
\* string the last fixPath call on this router returned.
FixPathCall(r, path, again) ==
    /\ Alive
    /\ pc = "idle"
    /\ again => /\ lastCall.op = "fixPath"
                /\ lastCall.router = r
                /\ lastCall.result = path
    /\ lastCall' = [op |-> "fixPath", router |-> r, base |-> basePath[r],
                    path |-> path, again |-> again,
                    result |-> FixPath(basePath[r], path), outcome |-> "returned"]
    /\ UNCHANGED <<basePath, isWaterfall, routes, ctorOptions, serveVars>>

\* ------------------------------------------------------------------ serve

\* new RouterRequest(request, additionalData): the method and the path of
\* the incoming request, and no params yet.
RouterRequest(incoming) ==
    [method |-> incoming.method, path |-> incoming.path, params |-> <<>>]

\* new RouterResponse(request): no route recorded, nothing built.
RouterResponse(req) == [route |-> <<>>, built |-> FALSE]

\* RouterRequest.setParams and RouterResponse.setRoute.
SetParams(req, match) == [req EXCEPT !.params = <<match>>]

SetRoute(res, route) == [res EXCEPT !.route = <<route>>]

\* RouterResponse.buildResponse.
BuildResponse(res) == [res EXCEPT !.built = TRUE]

\* The value of a call that returns nothing, and the errors of serve.
Undefined == [type |-> "undefined"]

NoHandlerError ==
    [type |-> "Error", message |-> "Could not find a response handler for the request!"]

HandlerError(route) == [type |-> "HandlerError", route |-> route]

\* No serve call: the values of the call's variables.
NoRequest == [method |-> <<>>, path |-> <<>>, params |-> <<>>]

NoResponse == [route |-> <<>>, built |-> FALSE]

ServeIdle ==
    /\ pc = "idle"
    /\ thisRouter = 0
    /\ alreadyProcessed = FALSE
    /\ request = NoRequest
    /\ response = NoResponse
    /\ foundMatchingRoutes = <<>>
    /\ middlewares = <<>>
    /\ responseHandler = <<>>
    /\ mwStatus = <<>>
    /\ handlerStatus = "notStarted"
    /\ invoked = <<>>
    /\ outcome = Undefined

\* foundMatchingRoutes.filter(matchingRoute => matchingRoute.route.isMiddleware).
MiddlewaresOf(foundRoutes) == SelectSeq(foundRoutes, LAMBDA m : m.route.isMiddleware)

\* The non-middleware matches, in the order of foundMatchingRoutes.
TerminalsOf(foundRoutes) == SelectSeq(foundRoutes, LAMBDA m : ~m.route.isMiddleware)

\* The response handler taken from the end of the non-middleware matches.
SelectLastResponseHandler(foundRoutes) ==
    LET terminals == TerminalsOf(foundRoutes)
    IN IF terminals = <<>> THEN <<>> ELSE <<terminals[Len(terminals)]>>

\* foundMatchingRoutes.filter(... !isMiddleware).find(matchingRoute =>
\* matchingRoute): <<>> for undefined, else the first non-middleware match.
SelectResponseHandler(foundRoutes) ==
    LET terminals == TerminalsOf(foundRoutes)
    IN IF terminals = <<>> THEN <<>> ELSE <<Head(terminals)>>

\* All n middlewares started at once, whatever the mode.
StartAllMiddlewares(waterfall, n) == [i \in 1..n |-> "running"]

\* The middleware invocations up to serve's first await, n > 0 middlewares
\* having matched: in waterfall mode the first is started (line 242) and
\* awaited; otherwise map starts every one before Promise.all is awaited.
StartMiddlewares(waterfall, n) ==
    IF waterfall
    THEN [i \in 1..n |-> IF i = 1 THEN "running" ELSE "notStarted"]
    ELSE [i \in 1..n |-> "running"]

\* The middleware the waterfall loop is awaiting: the last one started.
Awaited(status) ==
    CHOOSE i \in DOMAIN status :
        /\ status[i] # "notStarted"
        /\ \A j \in DOMAIN status : j > i => status[j] = "notStarted"

\* A join that is over as soon as one middleware has completed.
AnyFulfilled(status) == \E i \in DOMAIN status : status[i] = "completed"

\* Promise.all is fulfilled: every middleware has completed.
AllFulfilled(status) == \A i \in DOMAIN status : status[i] = "completed"

\* Promise.all is rejected: a middleware has failed.
SomeRejected(status) == \E i \in DOMAIN status : status[i] = "failed"

\* The routes of the middlewares that status says have been started.
InvokedBy(mws, status) ==
    LET RECURSIVE From(_)
        From(i) ==
            IF i > Len(mws) THEN <<>>
            ELSE (IF status[i] # "notStarted" THEN <<mws[i].route>> ELSE <<>>)
                 \o From(i + 1)
    IN From(1)

\* Router.serve(request, additionalData, response) on router r, up to its
\* first await or its end. wrapped: the request is a RouterRequest already;
\* given: <<>>, or <<the RouterResponse passed as response>>.
Serve(r, incoming, wrapped, given) ==
    LET req   == IF wrapped THEN incoming ELSE RouterRequest(incoming)
        res   == IF given # <<>> THEN given[1] ELSE RouterResponse(req)
        foundRoutes == FindMatchingRoutes(routes, r, req)
        mws   == MiddlewaresOf(foundRoutes)
        rh    == SelectResponseHandler(foundRoutes)
    IN /\ Alive
       /\ pc = "idle"
       /\ thisRouter' = r
       /\ alreadyProcessed' = wrapped
       /\ IF wrapped
          THEN /\ pc' = "returned"
               /\ outcome' = Undefined
               /\ request' = req
               /\ response' = res
               /\ UNCHANGED <<foundMatchingRoutes, middlewares, responseHandler,
                              mwStatus, handlerStatus, invoked>>
          ELSE /\ foundMatchingRoutes' = foundRoutes
               /\ middlewares' = mws
               /\ responseHandler' = rh
               /\ IF rh = <<>>
                  THEN /\ pc' = "thrown"
                       /\ outcome' = NoHandlerError
                       /\ request' = req
                       /\ response' = res
                       /\ UNCHANGED <<mwStatus, handlerStatus, invoked>>
                  ELSE /\ request' = SetParams(req, rh[1].match)
                       /\ response' = SetRoute(res, rh[1].route)
                       /\ outcome' = Undefined
                       /\ IF Len(mws) > 0
                          THEN /\ mwStatus' = StartMiddlewares(isWaterfall[r], Len(mws))
                               /\ invoked' = InvokedBy(mws, StartMiddlewares(isWaterfall[r], Len(mws)))
                               /\ handlerStatus' = "notStarted"
                               /\ pc' = IF isWaterfall[r] THEN "awaitMiddleware" ELSE "awaitAll"
                          ELSE /\ mwStatus' = <<>>
                               /\ invoked' = <<rh[1].route>>
                               /\ handlerStatus' = "running"
                               /\ pc' = "awaitHandler"
       /\ lastCall' = [op |-> "serve", router |-> r, outcome |-> "pending"]
       /\ UNCHANGED <<basePath, isWaterfall, routes, ctorOptions>>

\* A middleware's invocation (the promise of executeMiddleware) settles.
MiddlewareCompletes(i) ==
    /\ i \in DOMAIN mwStatus
    /\ mwStatus[i] = "running"
    /\ mwStatus' = [mwStatus EXCEPT ![i] = "completed"]
    /\ UNCHANGED <<regVars, pc, thisRouter, alreadyProcessed, request, response,
                   foundMatchingRoutes, middlewares, responseHandler, handlerStatus,
                   invoked, outcome>>

MiddlewareFails(i) ==
    /\ i \in DOMAIN mwStatus
    /\ mwStatus[i] = "running"
    /\ mwStatus' = [mwStatus EXCEPT ![i] = "failed"]
    /\ UNCHANGED <<regVars, pc, thisRouter, alreadyProcessed, request, response,
                   foundMatchingRoutes, middlewares, responseHandler, handlerStatus,
                   invoked, outcome>>

\* The waterfall loop going on to the next middleware, or to the response
\* handler, after a middleware that has failed as after one that has
\* completed.
ResumeWaterfallPastFailure ==
    /\ pc = "awaitMiddleware"
    /\ LET i == Awaited(mwStatus)
       IN \/ /\ mwStatus[i] \in {"completed", "failed"}
             /\ i < Len(mwStatus)
             /\ mwStatus' = [mwStatus EXCEPT ![i + 1] = "running"]
             /\ invoked' = Append(invoked, middlewares[i + 1].route)
             /\ UNCHANGED <<pc, handlerStatus, outcome>>
          \/ /\ mwStatus[i] \in {"completed", "failed"}
             /\ i = Len(mwStatus)
             /\ handlerStatus' = "running"
             /\ invoked' = Append(invoked, responseHandler[1].route)
             /\ pc' = "awaitHandler"
             /\ UNCHANGED <<mwStatus, outcome>>
    /\ UNCHANGED <<regVars, thisRouter, alreadyProcessed, request, response,
                   foundMatchingRoutes, middlewares, responseHandler>>

\* serve resumes from await waitingPromise (line 245): the error of a failed
\* middleware is thrown; after a completed one the loop starts the next
\* middleware, or after the last one the response handler (line 255).
ResumeWaterfall ==
    /\ pc = "awaitMiddleware"
    /\ LET i == Awaited(mwStatus)
       IN \/ /\ mwStatus[i] = "failed"
             /\ pc' = "thrown"
             /\ outcome' = HandlerError(middlewares[i].route)
             /\ UNCHANGED <<mwStatus, handlerStatus, invoked>>
          \/ /\ mwStatus[i] = "completed"
             /\ i < Len(mwStatus)
             /\ mwStatus' = [mwStatus EXCEPT ![i + 1] = "running"]
             /\ invoked' = Append(invoked, middlewares[i + 1].route)
             /\ UNCHANGED <<pc, handlerStatus, outcome>>
          \/ /\ mwStatus[i] = "completed"
             /\ i = Len(mwStatus)
             /\ handlerStatus' = "running"
             /\ invoked' = Append(invoked, responseHandler[1].route)
             /\ pc' = "awaitHandler"
             /\ UNCHANGED <<mwStatus, outcome>>
    /\ UNCHANGED <<regVars, thisRouter, alreadyProcessed, request, response,
                   foundMatchingRoutes, middlewares, responseHandler>>

\* serve resumes from await Promise.all(...) (line 248): rejected with the
\* error of a middleware that has failed, or fulfilled when every middleware
\* has completed, and then the response handler is started (line 255).
ResumeAll ==
    /\ pc = "awaitAll"
    /\ \/ /\ SomeRejected(mwStatus)
          /\ \E i \in DOMAIN mwStatus :
                /\ mwStatus[i] = "failed"
                /\ outcome' = HandlerError(middlewares[i].route)
          /\ pc' = "thrown"
          /\ UNCHANGED <<handlerStatus, invoked>>
       \/ /\ ~SomeRejected(mwStatus)
          /\ AllFulfilled(mwStatus)
          /\ handlerStatus' = "running"
          /\ invoked' = Append(invoked, responseHandler[1].route)
          /\ pc' = "awaitHandler"
          /\ UNCHANGED outcome
    /\ UNCHANGED <<regVars, thisRouter, alreadyProcessed, request, response,
                   foundMatchingRoutes, middlewares, responseHandler, mwStatus>>

\* The response handler's invocation settles.
HandlerCompletes ==
    /\ handlerStatus = "running"
    /\ handlerStatus' = "completed"
    /\ UNCHANGED <<regVars, pc, thisRouter, alreadyProcessed, request, response,
                   foundMatchingRoutes, middlewares, responseHandler, mwStatus,
                   invoked, outcome>>

HandlerFails ==
    /\ handlerStatus = "running"
    /\ handlerStatus' = "failed"
    /\ UNCHANGED <<regVars, pc, thisRouter, alreadyProcessed, request, response,
                   foundMatchingRoutes, middlewares, responseHandler, mwStatus,
                   invoked, outcome>>

\* serve building the response without waiting for the handler to settle.
ResumeHandlerBuildsEarly ==
    /\ pc = "awaitHandler"
    /\ handlerStatus \in {"running", "completed"}
    /\ response' = BuildResponse(response)
    /\ pc' = "returned"
    /\ outcome' = Undefined
    /\ UNCHANGED <<regVars, thisRouter, alreadyProcessed, request,
                   foundMatchingRoutes, middlewares, responseHandler, mwStatus,
                   handlerStatus, invoked>>

\* serve resumes from the await of line 255: the handler's error is thrown,
\* or the response is built and logged and serve returns nothing.
ResumeHandler ==
    /\ pc = "awaitHandler"
    /\ \/ /\ handlerStatus = "failed"
          /\ pc' = "thrown"
          /\ outcome' = HandlerError(responseHandler[1].route)
          /\ UNCHANGED response
       \/ /\ handlerStatus = "completed"
          /\ response' = BuildResponse(response)
          /\ pc' = "returned"
          /\ outcome' = Undefined
    /\ UNCHANGED <<regVars, thisRouter, alreadyProcessed, request,
                   foundMatchingRoutes, middlewares, responseHandler, mwStatus,
                   handlerStatus, invoked>>

\* The caller has the call's result; the next call can be made.
ServeEnds ==
    /\ pc \in {"returned", "thrown"}
    /\ pc' = "idle"
    /\ thisRouter' = 0
    /\ alreadyProcessed' = FALSE
    /\ request' = NoRequest
    /\ response' = NoResponse
    /\ foundMatchingRoutes' = <<>>
    /\ middlewares' = <<>>
    /\ responseHandler' = <<>>
    /\ mwStatus' = <<>>
    /\ handlerStatus' = "notStarted"
    /\ invoked' = <<>>
    /\ outcome' = Undefined
    /\ UNCHANGED regVars

\* ----------------------------------------------------------------- inputs

\* Paths given to createRoute and to setBasePath: "/w", "/u/:id", "/m",
\* "/a/".
PathW == <<"/", "w">>

PathUserId == <<"/", "u", "/", ":", "i", "d">>

PathMount == <<"/", "m">>

PathApi == <<"/", "a", "/">>

\* Paths of requests: "/w/", "/w", "/u/42/", "/a/w/", "/a/u/42/".
ReqW == <<"/", "w", "/">>

ReqWNoSlash == <<"/", "w">>

ReqUser42 == <<"/", "u", "/", "4", "2", "/">>

ReqApiW == <<"/", "a", "/", "w", "/">>

ReqApiUser42 == <<"/", "a", "/", "u", "/", "4", "2", "/">>

\* Methods of requests in other letter cases.
LowerGet == <<"g", "e", "t">>

MixedPost == <<"P", "o", "s", "t">>

\* The routers a route of router r may mount: the model nests without cycles.
Mountable(r) == {k \in RouterIds : k > r}

\* new Router(): the options object {} has no property.
NoOptions == <<>>

F1 == FunctionHandler(1)

F2 == FunctionHandler(2)

\* ------------------------------------------------- specification: matching

\* Route.match on the routes of one router: routes of every method, with
\* and without a method given, and requests in several letter cases.
MatchRouteOptions ==
    {[path |-> PathW, handler |-> F1],
     [path |-> PathW, handler |-> F1, method |-> ANY],
     [path |-> PathUserId, handler |-> F1, method |-> GET],
     [path |-> PathUserId, handler |-> F1, method |-> POST]}

MatchRequests ==
    {RouterRequest([method |-> m, path |-> p]) :
        m \in {GET, LowerGet, MixedPost, ANY, PUT},
        p \in {ReqW, ReqWNoSlash, ReqUser42}}

InitMatch == Constructed([r \in RouterIds |-> NoOptions]) /\ ServeIdle

NextMatch ==
    \/ \E o \in MatchRouteOptions : CreateRoute(1, o)
    \/ \E i \in 1..MaxRoutes, req \in MatchRequests : RouteMatchCall(1, i, req)

SpecMatch == InitMatch /\ [][NextMatch]_vars

\* Two methods are equal when compared case-insensitively: the same length
\* and, at every place, the same character or the two cases of one letter.
SameLetter(c, d) ==
    \/ c = d
    \/ \E k \in DOMAIN LowerCase : {c, d} = {LowerCase[k], UpperCase[k]}

EqualIgnoringCase(a, b) ==
    /\ Len(a) = Len(b)
    /\ \A i \in DOMAIN a : SameLetter(a[i], b[i])

\* C1: a Route whose method is ANY matches a request whose path matches its
\* pattern, whatever the request's method is.
C1_AnyMatchesEveryMethod ==
    (/\ lastCall.op = "match"
     /\ lastCall.route.method = ANY
     /\ PatternMatch(lastCall.route.path.pattern, lastCall.request.path).matched)
    => lastCall.result.doesMatch

\* C2: for a Route whose method is not ANY, match reports doesMatch exactly
\* when the request path matches the Route's pattern and the two methods
\* are equal case-insensitively.
C2_MethodComparedIgnoringCase ==
    (lastCall.op = "match" /\ lastCall.route.method # ANY)
    => (lastCall.result.doesMatch
        <=> /\ PatternMatch(lastCall.route.path.pattern, lastCall.request.path).matched
            /\ EqualIgnoringCase(lastCall.route.method, lastCall.request.method))

\* C2's case: a GET route matched by a request whose method is "get".
C2_Witness ==
    /\ lastCall.op = "match"
    /\ lastCall.route.method = GET
    /\ lastCall.request.method = LowerGet
    /\ lastCall.request.path = ReqUser42
    /\ lastCall.result.doesMatch
    /\ lastCall.result.pathMatch.params = <<<< <<"i", "d">>, <<"4", "2">> >>>>

\* ------------------------------------------------ specification: discovery

\* findMatchingRoutes over nested routers: the root holds routes that match
\* the GET request or not and mounts router 2, which holds matching routes
\* and mounts router 3.
FindRouteOptions(r) ==
    {[path |-> PathW, handler |-> F1, method |-> GET]}
    \cup (IF r = 1 THEN {[path |-> PathW, handler |-> F1, method |-> POST]} ELSE {})
    \cup {[path |-> PathMount, handler |-> RouterHandler(k), method |-> ANY] :
             k \in Mountable(r) \cap {r + 1}}

FindRequests == {RouterRequest([method |-> GET, path |-> ReqW])}

InitFind == Constructed([r \in RouterIds |-> NoOptions]) /\ ServeIdle

NextFind ==
    \/ \E r \in RouterIds : \E o \in FindRouteOptions(r) : CreateRoute(r, o)
    \/ \E r \in RouterIds, req \in FindRequests : FindMatchingRoutesCall(r, req)

SpecFind == InitFind /\ [][NextFind]_vars

\* The non-Router routes below router r in depth-first registration order:
\* the routes of a nested Router stand at the place of the route that
\* mounts it.
RECURSIVE DepthFirst(_, _)
DepthFirst(rs, r) ==
    LET RECURSIVE From(_)
        From(i) ==
            IF i > Len(rs[r]) THEN <<>>
            ELSE (IF rs[r][i].isRouterHandler
                  THEN DepthFirst(rs, rs[r][i].handler.id)
                  ELSE <<rs[r][i]>>) \o From(i + 1)
    IN From(1)

\* C4: findMatchingRoutes returns the matching non-Router routes in
\* depth-first registration order, a nested Router's matches standing at
\* the place of the route that mounts it, at any nesting depth.
C4_DepthFirstOrder ==
    lastCall.op = "findMatchingRoutes"
    => RoutesOf(lastCall.result)
       = SelectSeq(DepthFirst(routes, lastCall.router),
                   LAMBDA route : RouteMatch(route, lastCall.request).doesMatch)

\* C4's case: routes [A, B (router 2 with [C, D (router 3 with [E])]), F],
\* and the result is A, C, E, F.
C4_Witness ==
    /\ lastCall.op = "findMatchingRoutes"
    /\ lastCall.router = 1
    /\ Len(routes[1]) = 3 /\ Len(routes[2]) = 2 /\ Len(routes[3]) = 1
    /\ ~routes[1][1].isRouterHandler
    /\ routes[1][2].handler = RouterHandler(2)
    /\ ~routes[1][3].isRouterHandler
    /\ ~routes[2][1].isRouterHandler
    /\ routes[2][2].handler = RouterHandler(3)
    /\ Len(lastCall.result) = 4
    /\ [i \in 1..4 |-> lastCall.result[i].route.router] = <<1, 2, 3, 1>>

\* --------------------------------------------- specification: registration

\* Registration on the root router: routes with a function or router 2 as
\* handler, with and without a method, and changes of the base path.
RegRouteOptions ==
    {[path |-> PathW, handler |-> F1],
     [path |-> PathUserId, handler |-> F1, method |-> GET, isMiddleware |-> TRUE],
     [path |-> PathMount, handler |-> RouterHandler(2), method |-> ANY, isMiddleware |-> TRUE],
     [path |-> PathMount, handler |-> RouterHandler(2)],
     [path |-> PathMount, handler |-> RouterHandler(2), method |-> PUT]}

RegHandlers == {F1, RouterHandler(2)}

RegBasePaths == {<<>>, PathApi}

RegRequestPaths == {ReqW, ReqUser42, ReqApiW, ReqApiUser42}

InitReg == Constructed([r \in RouterIds |-> NoOptions]) /\ ServeIdle

NextReg ==
    \/ \E o \in RegRouteOptions : CreateRoute(1, o)
    \/ \E h \in RegHandlers : RouterGet(1, PathW, h)
    \/ \E h \in RegHandlers : RouterPost(1, PathW, h)
    \/ \E p \in RegBasePaths : SetBasePath(1, p)

SpecReg == InitReg /\ [][NextReg]_vars

\* C9: createRoute called with a Router as handler and a method other than
\* ANY, or no method, fails with an error and leaves the Router's routes as
\* they were before the call.
C9_RejectedRouterHandlerKeepsRoutes ==
    [][(/\ lastCall'.op \in {"createRoute", "get", "post"}
        /\ IsRouter(lastCall'.options.handler)
        /\ ~("method" \in DOMAIN lastCall'.options) \/ lastCall'.options.method # ANY)
       => (lastCall'.outcome = "thrown" /\ routes' = routes)]_vars

\* C9's case: a router that holds routes has rejected a Router handler
\* given with no method.
C9_Witness ==
    /\ lastCall.op = "createRoute"
    /\ IsRouter(lastCall.options.handler)
    /\ ~("method" \in DOMAIN lastCall.options)
    /\ lastCall.outcome = "thrown"
    /\ Len(routes[lastCall.router]) = 2

\* Some route of the list matches the path.
SomeRouteMatches(routeList, path) ==
    \E i \in DOMAIN routeList : PatternMatch(routeList[i].path.pattern, path).matched

\* C10: after the base path of a Router that holds routes is changed to B,
\* every route's formatted path is the normalization of its input path
\* under B, and a request path that matched only an old-base pattern
\* matches no route of the Router.
C10_RoutesRebuiltUnderNewBase ==
    (lastCall.op = "setBasePath" /\ lastCall.before # <<>>)
    => LET r == lastCall.router
       IN /\ lastCall.outcome = "returned"
          /\ \A i \in DOMAIN routes[r] :
                routes[r][i].path.formattedPath
                = FixPath(basePath[r], routes[r][i].path.inputPath)
          /\ \A p \in RegRequestPaths :
                (/\ SomeRouteMatches(lastCall.before, p)
                 /\ \A i \in DOMAIN lastCall.before :
                       ~PatternMatch(FixPath(basePath[r], lastCall.before[i].path.inputPath),
                                     p).matched)
                => ~SomeRouteMatches(routes[r], p)

\* ------------------------------------------------- specification: dispatch

\* serve on the root router, constructed with or without
\* waterfallMiddleware: false. The root holds a middleware, a handler and
\* the mount of router 2, which holds a middleware and a handler; the GET
\* request matches every route and the POST request none.
F3 == FunctionHandler(3)

ServeRouteOptions(r) ==
    IF r = 1
    THEN {[path |-> PathW, handler |-> F1, method |-> GET, isMiddleware |-> TRUE],
          [path |-> PathW, handler |-> F2, method |-> GET],
          [path |-> PathMount, handler |-> RouterHandler(2), method |-> ANY]}
    ELSE {[path |-> PathW, handler |-> F1, method |-> GET, isMiddleware |-> TRUE],
          [path |-> PathW, handler |-> F3, method |-> GET]}

ServeCtorOptions == {NoOptions, [waterfallMiddleware |-> FALSE]}

ServeIncoming == {[method |-> m, path |-> ReqW] : m \in {LowerGet, POST}}

\* serve called without a response, or with one made for the request.
ServeGiven(x) == {<<>>, <<RouterResponse(RouterRequest(x))>>}

InitServe ==
    /\ \E o \in ServeCtorOptions :
          Constructed([r \in RouterIds |-> IF r = 1 THEN o ELSE NoOptions])
    /\ ServeIdle

NextServe ==
    \/ \E o \in ServeRouteOptions(1) : CreateRoute(1, o)
    \/ \E o \in ServeRouteOptions(2) :
          Len(routes[2]) < MaxNestedRoutes /\ CreateRoute(2, o)
    \/ \E v \in BOOLEAN : AssignIsWaterfall(1, v)
    \/ \E x \in ServeIncoming : \E g \in ServeGiven(x) : Serve(1, x, FALSE, g)
    \/ \E x \in ServeIncoming : \E g \in ServeGiven(x) :
          Serve(1, RouterRequest(x), TRUE, g)
    \/ \E i \in 1..(MaxRoutes + MaxNestedRoutes) : MiddlewareCompletes(i)
    \/ \E i \in 1..(MaxRoutes + MaxNestedRoutes) : MiddlewareFails(i)
    \/ ResumeWaterfall
    \/ ResumeAll
    \/ HandlerCompletes
    \/ HandlerFails
    \/ ResumeHandler
    \/ ServeEnds

SpecServe == InitServe /\ [][NextServe]_vars

\* What findMatchingRoutes gives for the call's router and request.
CallMatches == FindMatchingRoutes(routes, thisRouter, request)

\* The first match of the list that is not a middleware's.
FirstTerminal(matches) ==
    matches[CHOOSE i \in DOMAIN matches :
                /\ ~matches[i].route.isMiddleware
                /\ \A j \in 1..(i - 1) : matches[j].route.isMiddleware]

HasTerminal(matches) == \E i \in DOMAIN matches : ~matches[i].route.isMiddleware

\* C3: in a serve call on a raw request with a matching non-middleware
\* route, the handler invoked as the terminal handler is that of the first
\* non-middleware element of findMatchingRoutes, and the params of the
\* request and the route of the response are those of the same match.
C3_FirstTerminalMatchServes ==
    (pc # "idle" /\ ~alreadyProcessed /\ HasTerminal(CallMatches))
    => LET first == FirstTerminal(CallMatches)
       IN /\ responseHandler = <<first>>
          /\ request.params = <<first.match>>
          /\ response.route = <<first.route>>
          /\ handlerStatus # "notStarted"
             => /\ invoked[Len(invoked)] = first.route
                /\ \A i \in 1..(Len(invoked) - 1) : invoked[i].isMiddleware

\* C3's case: a middleware and two handlers match, router 2's handler before
\* the root's, and the handler running is router 2's.
C3_Witness ==
    /\ pc = "awaitHandler"
    /\ Len(TerminalsOf(CallMatches)) = 2
    /\ Len(middlewares) = 1
    /\ TerminalsOf(CallMatches)[1].route.handler = F3
    /\ TerminalsOf(CallMatches)[2].route.handler = F2
    /\ invoked[Len(invoked)].handler = F3
    /\ handlerStatus = "running"

\* C5: when the flattened match list of the request holds no non-middleware
\* match, serve fails with the 'no handler found' error and builds no
\* response.
C5_NoTerminalFails ==
    (pc # "idle" /\ ~HasTerminal(CallMatches))
    => (pc = "thrown" /\ outcome = NoHandlerError /\ ~response.built)

\* C6: in waterfall mode a middleware is not started until every matched
\* middleware before it has completed, and at most one middleware of the
\* call is outstanding.
C6_WaterfallOneAtATime ==
    (pc # "idle" /\ isWaterfall[thisRouter])
    => /\ \A i, j \in DOMAIN mwStatus :
             (i < j /\ mwStatus[j] # "notStarted") => mwStatus[i] = "completed"
       /\ Cardinality({i \in DOMAIN mwStatus : mwStatus[i] = "running"}) <= 1

\* C6's case: the second of two matched middlewares, router 2's, runs
\* after the first has completed.
C6_Witness ==
    /\ pc = "awaitMiddleware"
    /\ isWaterfall[thisRouter]
    /\ mwStatus = <<"completed", "running">>
    /\ middlewares[2].route.router = 2
    /\ invoked = RoutesOf(middlewares)

\* C7: in either mode the terminal handler is not started until every
\* matched middleware has completed.
C7_HandlerAfterAllMiddlewares ==
    (pc # "idle" /\ handlerStatus # "notStarted")
    => /\ Len(mwStatus) = Len(MiddlewaresOf(CallMatches))
       /\ \A i \in DOMAIN mwStatus : mwStatus[i] = "completed"

\* C7's case: in concurrent mode the handler runs after two middlewares
\* have completed.
C7_Witness ==
    /\ pc = "awaitHandler"
    /\ ~isWaterfall[thisRouter]
    /\ mwStatus = <<"completed", "completed">>
    /\ handlerStatus = "running"

\* C8: a Router constructed with waterfallMiddleware = false dispatches in
\* concurrent mode: while serve awaits middlewares, every matched
\* middleware has been started. The Router's isWaterfall is the value its
\* constructor gave it.
C8_FalseOptionDispatchesConcurrently ==
    (/\ pc \in {"awaitMiddleware", "awaitAll"}
     /\ "waterfallMiddleware" \in DOMAIN ctorOptions[thisRouter]
     /\ ctorOptions[thisRouter].waterfallMiddleware = FALSE
     /\ isWaterfall[thisRouter] = WaterfallOrTrue(ctorOptions[thisRouter]))
    => \A i \in DOMAIN mwStatus : mwStatus[i] # "notStarted"

\* -------------------------------------------- specification: normalization

\* fixPath on a router constructed with or without a base path, which
\* setBasePath changes while the router holds no route: every path
\* of "/" and "w" up to MaxPathLen characters, with and without leading and
\* trailing separators, and each result given to fixPath once again.
FixCtorOptions == {NoOptions, [basePath |-> PathApi], [basePath |-> PathW]}

FixBasePaths == {<<>>, PathApi}

FixPaths == UNION {[1..n -> {"/", "w"}] : n \in 0..MaxPathLen}

InitFix ==
    /\ \E o \in FixCtorOptions :
          Constructed([r \in RouterIds |-> IF r = 1 THEN o ELSE NoOptions])
    /\ ServeIdle

NextFix ==
    \/ \E b \in FixBasePaths : SetBasePath(1, b)
    \/ \E p \in FixPaths : FixPathCall(1, p, FALSE)
    \/ /\ lastCall.op = "fixPath"
       /\ ~lastCall.again
       /\ FixPathCall(1, lastCall.result, TRUE)

SpecFix == InitFix /\ [][NextFix]_vars

\* C11: fixPath is idempotent: under one base path, fixPath applied to
\* the result of fixPath returns that result unchanged.
C11_FixPathIdempotent ==
    (lastCall.op = "fixPath" /\ lastCall.again) => lastCall.result = lastCall.path

\* C12: whatever the base path and the input path, the string fixPath
\* returns starts with "/" and ends with one "/", never with two or more.
C12_OneTrailingSeparator ==
    lastCall.op = "fixPath"
    => LET result == lastCall.result
       IN /\ StartsWithSlash(result)
          /\ EndsWithSlash(result)
          /\ Len(result) >= 2 => result[Len(result) - 1] # "/"

\* ------------------------------------------- further properties of dispatch

\* C13: a serve call that completes successfully returns the built
\* response to its caller: the value of the call is the response, built
\* after the terminal handler has completed.
C13_ServeReturnsBuiltResponse ==
    (pc = "returned" /\ handlerStatus = "completed")
    => (response.built /\ outcome = response)

\* ------------------------------------------ further properties of discovery

\* The non-Router routes below router r, each with the pattern of its path
\* under the prefix its router is mounted at: the path of the mounting
\* route (normalized under its own prefix) followed by the route's path.
RECURSIVE MountedPatterns(_, _, _)
MountedPatterns(rs, r, prefix) ==
    UNION {IF rs[r][i].isRouterHandler
           THEN MountedPatterns(rs, rs[r][i].handler.id,
                                FixPath(prefix, rs[r][i].path.inputPath))
           ELSE {[route   |-> rs[r][i],
                  pattern |-> FixPath(prefix, rs[r][i].path.inputPath)]}
           : i \in DOMAIN rs[r]}

\* C14: the routes of a Router mounted at prefix X are matched under that
\* prefix: findMatchingRoutes of the parent discovers a nested route of
\* path Y only for a request path that matches X followed by Y.
C14_NestedRoutesMatchUnderPrefix ==
    lastCall.op = "findMatchingRoutes"
    => \A k \in DOMAIN lastCall.result :
          \E m \in MountedPatterns(routes, lastCall.router, basePath[lastCall.router]) :
             /\ m.route = lastCall.result[k].route
             /\ PatternMatch(m.pattern, lastCall.request.path).matched

\* The errors of the invocations of the call that have failed.
FailureErrors ==
    {HandlerError(middlewares[i].route) : i \in {j \in DOMAIN mwStatus : mwStatus[j] = "failed"}}
    \cup (IF handlerStatus = "failed" THEN {HandlerError(responseHandler[1].route)} ELSE {})

\* C15: when a middleware or the terminal handler has failed, serve does
\* not return and builds no response, the error it throws is that of a
\* failed invocation, and in waterfall mode no middleware after the failed
\* one and not the terminal handler is started.
C15_FailurePropagates ==
    (pc # "idle" /\ FailureErrors # {})
    => /\ pc # "returned"
       /\ ~response.built
       /\ pc = "thrown" => outcome \in FailureErrors
       /\ (isWaterfall[thisRouter] /\ SomeRejected(mwStatus))
          => /\ handlerStatus = "notStarted"
             /\ \A i, j \in DOMAIN mwStatus :
                   (mwStatus[i] = "failed" /\ i < j) => mwStatus[j] = "notStarted"

\* C15's case: in waterfall mode the first of two middlewares has failed
\* and serve has thrown its error.
C15_Witness ==
    /\ pc = "thrown"
    /\ isWaterfall[thisRouter]
    /\ mwStatus = <<"failed", "notStarted">>
    /\ handlerStatus = "notStarted"
    /\ outcome = HandlerError(middlewares[1].route)
    /\ invoked = <<middlewares[1].route>>

\* C16: the phases of a dispatch come in order. The params of the request
\* and the route of the response are set before any middleware or the
\* terminal handler is started, and once set serve does not set them again
\* while the call lasts; the response is built only after the terminal
\* handler has completed.
C16_PhasesInOrder ==
    [][/\ invoked' # <<>>
          => /\ request'.params = <<responseHandler'[1].match>>
             /\ response'.route = <<responseHandler'[1].route>>
       /\ (pc # "idle" /\ pc' # "idle")
          => /\ request'.params = request.params
             /\ response'.route = response.route
       /\ response'.built
          => /\ handlerStatus' = "completed"
             /\ \A i \in DOMAIN mwStatus' : mwStatus'[i] = "completed"]_vars

\* C16's case: a call with two middlewares has gone through every phase and
\* built the response.
C16_Witness ==
    /\ pc = "returned"
    /\ response.built
    /\ mwStatus = <<"completed", "completed">>
    /\ handlerStatus = "completed"
    /\ Len(invoked) = 3
    /\ request.params = <<responseHandler[1].match>>
    /\ response.route = <<invoked[3]>>

\* C17: serve called with a request that is a RouterRequest already
\* dispatches as for a raw request: it finds the matching routes, selects
\* the first non-middleware match, returns only after its handler has
\* completed, and throws the 'no handler found' error when there is none.
C17_WrappedRequestIsDispatched ==
    (pc # "idle" /\ alreadyProcessed)
    => /\ foundMatchingRoutes = CallMatches
       /\ IF HasTerminal(CallMatches)
          THEN /\ responseHandler = <<FirstTerminal(CallMatches)>>
               /\ invoked # <<>>
               /\ pc = "returned" => handlerStatus = "completed"
          ELSE pc = "thrown" /\ outcome = NoHandlerError

\* C20: when the request matches middleware routes and no non-middleware
\* route, serve throws the 'no handler found' error before it starts a
\* middleware: no handler is invoked, and the params of the request and the
\* route of the response are left unset.
C20_NoMiddlewareRunsWithoutHandler ==
    (/\ pc # "idle"
     /\ MiddlewaresOf(CallMatches) # <<>>
     /\ ~HasTerminal(CallMatches))
    => /\ pc = "thrown"
       /\ outcome = NoHandlerError
       /\ invoked = <<>>
       /\ \A i \in DOMAIN mwStatus : mwStatus[i] = "notStarted"
       /\ request.params = <<>>
       /\ response.route = <<>>

\* --------------------------------------- further properties of registration

\* C18: every Route a Router holds has isRouterHandler true exactly when
\* its handler is a Router, and a Route whose handler is a Router has
\* method ANY and is no middleware, whatever isMiddleware was asked for.
C18_StoredRoutesWellFormed ==
    \A r \in RouterIds : \A i \in DOMAIN routes[r] :
       LET route == routes[r][i]
       IN /\ route.isRouterHandler <=> IsRouter(route.handler)
          /\ IsRouter(route.handler) => (route.method = ANY /\ ~route.isMiddleware)

\* C18's case: a Router handler registered with isMiddleware: true is held
\* as a route that is no middleware.
C18_Witness ==
    /\ lastCall.op = "createRoute"
    /\ lastCall.outcome = "returned"
    /\ IsRouter(lastCall.options.handler)
    /\ WantsMiddleware(lastCall.options)
    /\ LET held == routes[1][Len(routes[1])]
       IN /\ held.handler = lastCall.options.handler
          /\ held.isRouterHandler
          /\ ~held.isMiddleware
          /\ held.method = ANY

\* C19: a change of the base path of a Router that holds n routes returns,
\* and the Router then holds n routes with the input paths, handlers,
\* methods and middleware flags it held before, in the same order.
C19_RebuildTerminatesAndKeepsRoutes ==
    lastCall.op = "setBasePath"
    => LET r == lastCall.router
       IN /\ lastCall.outcome = "returned"
          /\ Len(routes[r]) = Len(lastCall.before)
          /\ \A i \in DOMAIN lastCall.before :
                RebuildOptions(routes[r][i]) = RebuildOptions(lastCall.before[i])

====
